---------------------------- MODULE Spec2Model ----------------------------
(***************************************************************************)
(* A model of simple_bridge.py: the fail-over fetch of a liquidity-pool    *)
(* object (get_pool_data), the rate calculation on decimal amounts         *)
(* (calculate_exchange_rate), the interactive bridge quote (main) and the  *)
(* one-value helper (get_single_rate).                                     *)
(*                                                                         *)
(* Numbers.  Python's int is unbounded and Decimal carries 28 significant  *)
(* digits, which is beyond the integers of the model checker, so a natural *)
(* number is a sequence of decimal digits, most significant first,         *)
(* exactly as decimal.Decimal keeps its coefficient (_int), and a Decimal  *)
(* is the record [sign, int, exp, special] of its value                    *)
(* (-1)^sign * int * 10^exp, or of an infinity or a NaN.  Texts (the       *)
(* balances of the JSON record, what the user types) are sequences of      *)
(* Unicode code points.  A balance of the record is a text (a JSON integer *)
(* n behaves as the text str(n)), taker_fee_percent is an integer, and the *)
(* exponent of a numeral has at most 9 digits.                             *)
(*                                                                         *)
(* Style.  A value that takes work to compute is computed at one place     *)
(* and handed on as a parameter, instead of being named in a LET and used  *)
(* several times.                                                          *)
(***************************************************************************)
EXTENDS Integers, Sequences, FiniteSets, TLC

(***************************************************************************)
(* Program constants.                                                      *)
(***************************************************************************)
\* (for C6: a context of 10 digits, 18 fewer)
PrecShort == 28 - 18

\* getcontext().prec = 28
Prec == 28
\* timeout=15 of requests.post
Timeout == 15
\* asset_a_precision = 4 and asset_b_precision = 2, in main and as defaults
DefaultPrecisionA == 4
DefaultPrecisionB == 2
\* float(): an IEEE-754 double has a 53-bit significand
FloatMantissaBits == 53

(***************************************************************************)
(* Bounds of the model.                                                    *)
(***************************************************************************)
\* raw balances 0..MaxBalance are enumerated (besides the spec's examples)
MaxBalance == 7
\* precisions 0..MaxPrecision are enumerated for the direct calls
MaxPrecision == 2
\* float(): powers of two up to 2^MaxBinaryShift are tabulated, which covers
\* every quotient of amounts of at most 12 digits; larger ones are computed
MaxBinaryShift == 128

(***************************************************************************)
(* Natural numbers as digit sequences (Python int / Decimal._int), most    *)
(* significant digit first.                                                *)
(***************************************************************************)
Zeros(n) == [i \in 1..n |-> 0]

\* s without its leading zeros
StripZeros(s) ==
  IF \A i \in 1..Len(s) : s[i] = 0 THEN <<0>>
  ELSE SubSeq(s, CHOOSE k \in 1..Len(s) : s[k] # 0 /\ \A j \in 1..(k - 1) : s[j] = 0, Len(s))

NatIsZero(a) == \A i \in 1..Len(a) : a[i] = 0

\* the first position where a and b differ, or 0 (a and b of one length)
FirstDifference(a, b) ==
  IF \A i \in 1..Len(a) : a[i] = b[i] THEN 0
  ELSE CHOOSE k \in 1..Len(a) : a[k] # b[k] /\ \A j \in 1..(k - 1) : a[j] = b[j]

CmpAt(a, b, k) == IF k = 0 THEN 0 ELSE IF a[k] < b[k] THEN -1 ELSE 1

\* -1, 0, 1 as a < b, a = b, a > b (both without leading zeros)
NatCmp(a, b) ==
  IF Len(a) # Len(b) THEN (IF Len(a) < Len(b) THEN -1 ELSE 1)
  ELSE CmpAt(a, b, FirstDifference(a, b))

PadTo(a, n) == Zeros(n - Len(a)) \o a

\* the first position after i where s is not v, or 0
NextNot(s, i, v) ==
  IF \A k \in (i + 1)..Len(s) : s[k] = v THEN 0
  ELSE CHOOSE j \in (i + 1)..Len(s) : s[j] # v /\ \A k \in (i + 1)..(j - 1) : s[k] = v

\* the carry into position i of the digit sums s comes from the nearest
\* lower position whose sum is not 9
CarryInto(s, i) ==
  IF NextNot(s, i, 9) = 0 THEN 0 ELSE IF s[NextNot(s, i, 9)] >= 10 THEN 1 ELSE 0

AddSums(s) ==
  (IF CarryInto(s, 0) = 1 THEN <<1>> ELSE <<>>)
    \o [i \in 1..Len(s) |-> (s[i] + CarryInto(s, i)) % 10]

AddPadded(a, b) == AddSums([i \in 1..Len(a) |-> a[i] + b[i]])

\* a + b
NatAdd(a, b) ==
  StripZeros(AddPadded(PadTo(a, IF Len(a) > Len(b) THEN Len(a) ELSE Len(b)),
                       PadTo(b, IF Len(a) > Len(b) THEN Len(a) ELSE Len(b))))

\* the borrow from position i of the digit differences d goes to the
\* nearest lower position whose difference is not 0
BorrowFrom(d, i) ==
  IF NextNot(d, i, 0) = 0 THEN 0 ELSE IF d[NextNot(d, i, 0)] < 0 THEN 1 ELSE 0

SubDiffs(d) == [i \in 1..Len(d) |-> (d[i] - BorrowFrom(d, i) + 10) % 10]

SubPadded(a, b) == SubDiffs([i \in 1..Len(a) |-> a[i] - b[i]])

\* a - b for a >= b
NatSub(a, b) == StripZeros(SubPadded(a, PadTo(b, Len(a))))

\* a * k for a digit k: the units of the digit products and their tens
NatMulDigit(a, k) ==
  NatAdd([i \in 1..Len(a) |-> (a[i] * k) % 10],
         [i \in 1..Len(a) |-> (a[i] * k) \div 10] \o <<0>>)

\* a * 10^n
NatShift(a, n) == IF NatIsZero(a) THEN <<0>> ELSE a \o Zeros(n)

\* a times the digits lo..hi of b
RECURSIVE NatMulRange(_, _, _, _)
NatMulRange(a, b, lo, hi) ==
  IF lo > hi THEN <<0>>
  ELSE IF lo = hi THEN NatMulDigit(a, b[lo])
  ELSE NatAdd(NatShift(NatMulRange(a, b, lo, (lo + hi) \div 2), hi - (lo + hi) \div 2),
              NatMulRange(a, b, (lo + hi) \div 2 + 1, hi))

\* a * b: the schoolbook product, a times each digit of b
NatMul(a, b) == NatMulRange(a, b, 1, Len(b))

\* the largest digit q with b * q <= r
QuotDigit(b, r) ==
  CHOOSE q \in 0..9 :
    /\ NatCmp(NatMulDigit(b, q), r) <= 0
    /\ q = 9 \/ NatCmp(NatMulDigit(b, q + 1), r) > 0

\* one digit of the quotient, and the remainder that goes on
DivDigit(st, b, r, q) ==
  [i |-> st.i + 1, r |-> NatSub(r, NatMulDigit(b, q)), acc |-> Append(st.acc, q)]

\* one step of the long division: the next digit of a is brought down
DivStep(st, b, r) == DivDigit(st, b, r, QuotDigit(b, r))

\* the steps of the long division for the digits st.i..hi of a, one after
\* the other: the first half of them, then the rest
RECURSIVE DivModRec(_, _, _, _)
DivModRec(a, b, hi, st) ==
  IF st.i > hi THEN st
  ELSE IF st.i = hi THEN DivStep(st, b, StripZeros(Append(st.r, a[st.i])))
  ELSE DivModRec(a, b, hi, DivModRec(a, b, (st.i + hi) \div 2, st))

DivModResult(st) == [q |-> StripZeros(st.acc), r |-> st.r]

\* the long division from the digit `first` of a on; the digits before it
\* are fewer than those of b
DivModFrom(a, b, first) ==
  DivModResult(DivModRec(a, b, Len(a),
                         [i |-> first, r |-> StripZeros(SubSeq(a, 1, first - 1)), acc |-> <<>>]))

\* divmod(a, b) for b > 0 without leading zeros: long division
NatDivMod(a, b) == DivModFrom(a, b, IF Len(a) < Len(b) THEN Len(a) + 1 ELSE Len(b))

\* 10^n
NatPow10(n) == <<1>> \o Zeros(n)

RECURSIVE NatFromInt(_)
NatFromInt(n) == IF n < 10 THEN <<n>> ELSE NatFromInt(n \div 10) \o <<n % 10>>

Square(h) == NatMul(h, h)

\* 2^n, by squaring
RECURSIVE NatPow2(_)
NatPow2(n) ==
  IF n = 0 THEN <<1>>
  ELSE IF n % 2 = 0 THEN Square(NatPow2(n \div 2))
  ELSE NatMulDigit(NatPow2(n - 1), 2)

(***************************************************************************)
(* Texts.  A text (Python str) is the sequence of the code points of its   *)
(* characters, so that str.strip(), str.upper() and the digits Decimal     *)
(* accepts range over all of Unicode; the tables are those of the Unicode  *)
(* character database.                                                     *)
(***************************************************************************)
\* the ASCII characters the texts of the model are written with: each row
\* is a code point and the characters from it on
AsciiRuns ==
  << <<32, <<" ">>>>,
     <<43, <<"+", ",", "-", ".", "/", "0", "1", "2", "3", "4", "5", "6", "7", "8", "9">>>>,
     <<65, <<"A", "B", "C", "D", "E", "F", "G", "H", "I", "J", "K", "L", "M",
             "N", "O", "P", "Q", "R", "S", "T", "U", "V", "W", "X", "Y", "Z">>>>,
     <<95, <<"_">>>>,
     <<97, <<"a", "b", "c", "d", "e", "f", "g", "h", "i", "j", "k", "l", "m",
             "n", "o", "p", "q", "r", "s", "t", "u", "v", "w", "x", "y", "z">>>> >>

\* ord(ch) of one of these characters
Code(ch) ==
  CHOOSE c \in 32..122 :
    \E r \in 1..Len(AsciiRuns) : \E i \in 1..Len(AsciiRuns[r][2]) :
      AsciiRuns[r][2][i] = ch /\ c = AsciiRuns[r][1] + i - 1

\* the text of a string literal, given character by character
Text(chars) == [i \in 1..Len(chars) |-> Code(chars[i])]

\* the code points c with chr(c).isspace() (Unicode 14.0.0)
WhitespaceCodes ==
  {
    9, 10, 11, 12, 13, 28, 29, 30, 31, 32, 133, 160,
    5760, 8192, 8193, 8194, 8195, 8196, 8197, 8198, 8199, 8200, 8201, 8202,
    8232, 8233, 8239, 8287, 12288 }

\* the code points of the digit zero of every decimal digit set of Unicode;
\* the digits 0..9 of a set follow one another
DigitZeros ==
  {
    48, 1632, 1776, 1984, 2406, 2534, 2662, 2790, 2918, 3046, 3174, 3302,
    3430, 3558, 3664, 3792, 3872, 4160, 4240, 6112, 6160, 6470, 6608, 6784,
    6800, 6992, 7088, 7232, 7248, 42528, 43216, 43264, 43472, 43504, 43600, 44016,
    65296, 66720, 68912, 69734, 69872, 69942, 70096, 70384, 70736, 70864, 71248, 71360,
    71472, 71904, 72016, 72784, 73040, 73120, 92768, 92864, 93008, 120782, 120792, 120802,
    120812, 120822, 123200, 123632, 125264, 130032 }

\* str.upper() of one character where the result is one character: the
\* code points lo, lo + step, ..., hi are moved by delta; each row is
\* <<lo, hi, step, delta>>, and a code point is in at most one row
UpperRuns ==
  <<
    <<97, 122, 1, -32>>, <<181, 181, 1, 743>>, <<224, 246, 1, -32>>, <<248, 254, 1, -32>>,
    <<255, 255, 1, 121>>, <<257, 303, 2, -1>>, <<305, 305, 1, -232>>, <<307, 311, 2, -1>>,
    <<314, 328, 2, -1>>, <<331, 375, 2, -1>>, <<378, 382, 2, -1>>, <<383, 383, 1, -300>>,
    <<384, 384, 1, 195>>, <<387, 389, 2, -1>>, <<392, 392, 1, -1>>, <<396, 396, 1, -1>>,
    <<402, 402, 1, -1>>, <<405, 405, 1, 97>>, <<409, 409, 1, -1>>, <<410, 410, 1, 163>>,
    <<414, 414, 1, 130>>, <<417, 421, 2, -1>>, <<424, 424, 1, -1>>, <<429, 429, 1, -1>>,
    <<432, 432, 1, -1>>, <<436, 438, 2, -1>>, <<441, 441, 1, -1>>, <<445, 445, 1, -1>>,
    <<447, 447, 1, 56>>, <<453, 453, 1, -1>>, <<454, 454, 1, -2>>, <<456, 456, 1, -1>>,
    <<457, 457, 1, -2>>, <<459, 459, 1, -1>>, <<460, 460, 1, -2>>, <<462, 476, 2, -1>>,
    <<477, 477, 1, -79>>, <<479, 495, 2, -1>>, <<498, 498, 1, -1>>, <<499, 499, 1, -2>>,
    <<501, 501, 1, -1>>, <<505, 543, 2, -1>>, <<547, 563, 2, -1>>, <<572, 572, 1, -1>>,
    <<575, 576, 1, 10815>>, <<578, 578, 1, -1>>, <<583, 591, 2, -1>>, <<592, 592, 1, 10783>>,
    <<593, 593, 1, 10780>>, <<594, 594, 1, 10782>>, <<595, 595, 1, -210>>, <<596, 596, 1, -206>>,
    <<598, 599, 1, -205>>, <<601, 601, 1, -202>>, <<603, 603, 1, -203>>, <<604, 604, 1, 42319>>,
    <<608, 608, 1, -205>>, <<609, 609, 1, 42315>>, <<611, 611, 1, -207>>, <<613, 613, 1, 42280>>,
    <<614, 614, 1, 42308>>, <<616, 616, 1, -209>>, <<617, 617, 1, -211>>, <<618, 618, 1, 42308>>,
    <<619, 619, 1, 10743>>, <<620, 620, 1, 42305>>, <<623, 623, 1, -211>>, <<625, 625, 1, 10749>>,
    <<626, 626, 1, -213>>, <<629, 629, 1, -214>>, <<637, 637, 1, 10727>>, <<640, 640, 1, -218>>,
    <<642, 642, 1, 42307>>, <<643, 643, 1, -218>>, <<647, 647, 1, 42282>>, <<648, 648, 1, -218>>,
    <<649, 649, 1, -69>>, <<650, 651, 1, -217>>, <<652, 652, 1, -71>>, <<658, 658, 1, -219>>,
    <<669, 669, 1, 42261>>, <<670, 670, 1, 42258>>, <<837, 837, 1, 84>>, <<881, 883, 2, -1>>,
    <<887, 887, 1, -1>>, <<891, 893, 1, 130>>, <<940, 940, 1, -38>>, <<941, 943, 1, -37>>,
    <<945, 961, 1, -32>>, <<962, 962, 1, -31>>, <<963, 971, 1, -32>>, <<972, 972, 1, -64>>,
    <<973, 974, 1, -63>>, <<976, 976, 1, -62>>, <<977, 977, 1, -57>>, <<981, 981, 1, -47>>,
    <<982, 982, 1, -54>>, <<983, 983, 1, -8>>, <<985, 1007, 2, -1>>, <<1008, 1008, 1, -86>>,
    <<1009, 1009, 1, -80>>, <<1010, 1010, 1, 7>>, <<1011, 1011, 1, -116>>, <<1013, 1013, 1, -96>>,
    <<1016, 1016, 1, -1>>, <<1019, 1019, 1, -1>>, <<1072, 1103, 1, -32>>, <<1104, 1119, 1, -80>>,
    <<1121, 1153, 2, -1>>, <<1163, 1215, 2, -1>>, <<1218, 1230, 2, -1>>, <<1231, 1231, 1, -15>>,
    <<1233, 1327, 2, -1>>, <<1377, 1414, 1, -48>>, <<4304, 4346, 1, 3008>>, <<4349, 4351, 1, 3008>>,
    <<5112, 5117, 1, -8>>, <<7296, 7296, 1, -6254>>, <<7297, 7297, 1, -6253>>, <<7298, 7298, 1, -6244>>,
    <<7299, 7300, 1, -6242>>, <<7301, 7301, 1, -6243>>, <<7302, 7302, 1, -6236>>, <<7303, 7303, 1, -6181>>,
    <<7304, 7304, 1, 35266>>, <<7545, 7545, 1, 35332>>, <<7549, 7549, 1, 3814>>, <<7566, 7566, 1, 35384>>,
    <<7681, 7829, 2, -1>>, <<7835, 7835, 1, -59>>, <<7841, 7935, 2, -1>>, <<7936, 7943, 1, 8>>,
    <<7952, 7957, 1, 8>>, <<7968, 7975, 1, 8>>, <<7984, 7991, 1, 8>>, <<8000, 8005, 1, 8>>,
    <<8017, 8023, 2, 8>>, <<8032, 8039, 1, 8>>, <<8048, 8049, 1, 74>>, <<8050, 8053, 1, 86>>,
    <<8054, 8055, 1, 100>>, <<8056, 8057, 1, 128>>, <<8058, 8059, 1, 112>>, <<8060, 8061, 1, 126>>,
    <<8112, 8113, 1, 8>>, <<8126, 8126, 1, -7205>>, <<8144, 8145, 1, 8>>, <<8160, 8161, 1, 8>>,
    <<8165, 8165, 1, 7>>, <<8526, 8526, 1, -28>>, <<8560, 8575, 1, -16>>, <<8580, 8580, 1, -1>>,
    <<9424, 9449, 1, -26>>, <<11312, 11359, 1, -48>>, <<11361, 11361, 1, -1>>, <<11365, 11365, 1, -10795>>,
    <<11366, 11366, 1, -10792>>, <<11368, 11372, 2, -1>>, <<11379, 11379, 1, -1>>, <<11382, 11382, 1, -1>>,
    <<11393, 11491, 2, -1>>, <<11500, 11502, 2, -1>>, <<11507, 11507, 1, -1>>, <<11520, 11557, 1, -7264>>,
    <<11559, 11559, 1, -7264>>, <<11565, 11565, 1, -7264>>, <<42561, 42605, 2, -1>>, <<42625, 42651, 2, -1>>,
    <<42787, 42799, 2, -1>>, <<42803, 42863, 2, -1>>, <<42874, 42876, 2, -1>>, <<42879, 42887, 2, -1>>,
    <<42892, 42892, 1, -1>>, <<42897, 42899, 2, -1>>, <<42900, 42900, 1, 48>>, <<42903, 42921, 2, -1>>,
    <<42933, 42947, 2, -1>>, <<42952, 42954, 2, -1>>, <<42961, 42961, 1, -1>>, <<42967, 42969, 2, -1>>,
    <<42998, 42998, 1, -1>>, <<43859, 43859, 1, -928>>, <<43888, 43967, 1, -38864>>, <<65345, 65370, 1, -32>>,
    <<66600, 66639, 1, -40>>, <<66776, 66811, 1, -40>>, <<66967, 67003, 2, -39>>, <<66968, 66976, 2, -39>>,
    <<66980, 66992, 2, -39>>, <<66996, 67000, 2, -39>>, <<67004, 67004, 1, -39>>, <<68800, 68850, 1, -64>>,
    <<71872, 71903, 1, -32>>, <<93792, 93823, 1, -32>>, <<125218, 125251, 1, -34>> >>

\* str.upper() of one character where the result is several characters
UpperSpecial ==
  <<
    <<223, <<83, 83>>>>, <<329, <<700, 78>>>>, <<496, <<74, 780>>>>, <<912, <<921, 776, 769>>>>,
    <<944, <<933, 776, 769>>>>, <<1415, <<1333, 1362>>>>, <<7830, <<72, 817>>>>, <<7831, <<84, 776>>>>,
    <<7832, <<87, 778>>>>, <<7833, <<89, 778>>>>, <<7834, <<65, 702>>>>, <<8016, <<933, 787>>>>,
    <<8018, <<933, 787, 768>>>>, <<8020, <<933, 787, 769>>>>, <<8022, <<933, 787, 834>>>>, <<8064, <<7944, 921>>>>,
    <<8065, <<7945, 921>>>>, <<8066, <<7946, 921>>>>, <<8067, <<7947, 921>>>>, <<8068, <<7948, 921>>>>,
    <<8069, <<7949, 921>>>>, <<8070, <<7950, 921>>>>, <<8071, <<7951, 921>>>>, <<8072, <<7944, 921>>>>,
    <<8073, <<7945, 921>>>>, <<8074, <<7946, 921>>>>, <<8075, <<7947, 921>>>>, <<8076, <<7948, 921>>>>,
    <<8077, <<7949, 921>>>>, <<8078, <<7950, 921>>>>, <<8079, <<7951, 921>>>>, <<8080, <<7976, 921>>>>,
    <<8081, <<7977, 921>>>>, <<8082, <<7978, 921>>>>, <<8083, <<7979, 921>>>>, <<8084, <<7980, 921>>>>,
    <<8085, <<7981, 921>>>>, <<8086, <<7982, 921>>>>, <<8087, <<7983, 921>>>>, <<8088, <<7976, 921>>>>,
    <<8089, <<7977, 921>>>>, <<8090, <<7978, 921>>>>, <<8091, <<7979, 921>>>>, <<8092, <<7980, 921>>>>,
    <<8093, <<7981, 921>>>>, <<8094, <<7982, 921>>>>, <<8095, <<7983, 921>>>>, <<8096, <<8040, 921>>>>,
    <<8097, <<8041, 921>>>>, <<8098, <<8042, 921>>>>, <<8099, <<8043, 921>>>>, <<8100, <<8044, 921>>>>,
    <<8101, <<8045, 921>>>>, <<8102, <<8046, 921>>>>, <<8103, <<8047, 921>>>>, <<8104, <<8040, 921>>>>,
    <<8105, <<8041, 921>>>>, <<8106, <<8042, 921>>>>, <<8107, <<8043, 921>>>>, <<8108, <<8044, 921>>>>,
    <<8109, <<8045, 921>>>>, <<8110, <<8046, 921>>>>, <<8111, <<8047, 921>>>>, <<8114, <<8122, 921>>>>,
    <<8115, <<913, 921>>>>, <<8116, <<902, 921>>>>, <<8118, <<913, 834>>>>, <<8119, <<913, 834, 921>>>>,
    <<8124, <<913, 921>>>>, <<8130, <<8138, 921>>>>, <<8131, <<919, 921>>>>, <<8132, <<905, 921>>>>,
    <<8134, <<919, 834>>>>, <<8135, <<919, 834, 921>>>>, <<8140, <<919, 921>>>>, <<8146, <<921, 776, 768>>>>,
    <<8147, <<921, 776, 769>>>>, <<8150, <<921, 834>>>>, <<8151, <<921, 776, 834>>>>, <<8162, <<933, 776, 768>>>>,
    <<8163, <<933, 776, 769>>>>, <<8164, <<929, 787>>>>, <<8166, <<933, 834>>>>, <<8167, <<933, 776, 834>>>>,
    <<8178, <<8186, 921>>>>, <<8179, <<937, 921>>>>, <<8180, <<911, 921>>>>, <<8182, <<937, 834>>>>,
    <<8183, <<937, 834, 921>>>>, <<8188, <<937, 921>>>>, <<64256, <<70, 70>>>>, <<64257, <<70, 73>>>>,
    <<64258, <<70, 76>>>>, <<64259, <<70, 70, 73>>>>, <<64260, <<70, 70, 76>>>>, <<64261, <<83, 84>>>>,
    <<64262, <<83, 84>>>>, <<64275, <<1348, 1350>>>>, <<64276, <<1348, 1333>>>>, <<64277, <<1348, 1339>>>>,
    <<64278, <<1358, 1350>>>>, <<64279, <<1348, 1341>>>> >>
\* str(n) of a natural number given by its digits
NatToText(a) == [i \in 1..Len(a) |-> 48 + a[i]]

IsSpace(c) == c \in WhitespaceCodes

\* str.lstrip(): from the first character that is no whitespace on
StripLeft(t) ==
  IF \A i \in 1..Len(t) : IsSpace(t[i]) THEN <<>>
  ELSE SubSeq(t, CHOOSE k \in 1..Len(t) : ~IsSpace(t[k]) /\ \A j \in 1..(k - 1) : IsSpace(t[j]),
              Len(t))

\* str.rstrip(): up to the last character that is no whitespace
StripRight(t) ==
  IF \A i \in 1..Len(t) : IsSpace(t[i]) THEN <<>>
  ELSE SubSeq(t, 1,
              CHOOSE k \in 1..Len(t) : ~IsSpace(t[k]) /\ \A j \in (k + 1)..Len(t) : IsSpace(t[j]))

\* str.strip(): leading and trailing whitespace removed
Strip(t) == StripRight(StripLeft(t))

InRun(c, run) == run[1] <= c /\ c <= run[2] /\ (c - run[1]) % run[3] = 0

\* str.upper() of one character, as a text
UpperOf(c) ==
  IF c < 128 THEN (IF 97 <= c /\ c <= 122 THEN <<c - 32>> ELSE <<c>>)
  ELSE IF \E k \in 1..Len(UpperSpecial) : UpperSpecial[k][1] = c
  THEN UpperSpecial[CHOOSE k \in 1..Len(UpperSpecial) : UpperSpecial[k][1] = c][2]
  ELSE IF \E k \in 1..Len(UpperRuns) : InRun(c, UpperRuns[k])
  THEN <<c + UpperRuns[CHOOSE k \in 1..Len(UpperRuns) : InRun(c, UpperRuns[k])][4]>>
  ELSE <<c>>

\* the upper case of the characters i..j of t, one after the other
RECURSIVE UpperFrom(_, _, _)
UpperFrom(t, i, j) ==
  IF i > j THEN <<>>
  ELSE IF i = j THEN UpperOf(t[i])
  ELSE UpperFrom(t, i, (i + j) \div 2) \o UpperFrom(t, (i + j) \div 2 + 1, j)

\* str.upper()
Upper(t) == UpperFrom(t, 1, Len(t))

(***************************************************************************)
(* decimal.Decimal in the default context with prec = Prec:                *)
(* ROUND_HALF_EVEN, Emax = 999999, Emin = -999999, and the traps           *)
(* InvalidOperation, DivisionByZero and Overflow, which raise.  A Decimal  *)
(* is [sign, int, exp, special]: special is "" for a number, "F" for an    *)
(* infinity, "n" for a NaN and "N" for a signaling NaN, whose int is the   *)
(* payload.  An operation that raises yields [exc |-> the exception], and  *)
(* an operation on such a value yields it again (the first operand         *)
(* first), as the exception leaves the expression in the code.             *)
(***************************************************************************)
Emax == 999999
Emin == -999999

Etiny == Emin - Prec + 1

Dec(sign, int, exp) == [sign |-> sign, int |-> int, exp |-> exp, special |-> ""]

Special(sign, int, special) == [sign |-> sign, int |-> int, exp |-> 0, special |-> special]

Exc(name) == [exc |-> name]


IsExc(v) == "exc" \in DOMAIN v

XorSign(s1, s2) == IF s1 = s2 THEN 0 ELSE 1

\* d == 0 of a Decimal that is no signaling NaN: False for a NaN
DecEqZero(d) == d.special = "" /\ NatIsZero(d.int)

IsNaN(d) == d.special \in {"n", "N"}

(***************************************************************************)
(* Decimal(text).                                                          *)
(***************************************************************************)
\* the characters of t that are not "_"
WithoutUnderscores(t) == SelectSeq(t, LAMBDA c : c # 95)

IsDecimalDigit(c) == \E z \in DigitZeros : z <= c /\ c <= z + 9

DigitValue(c) == c - (CHOOSE z \in DigitZeros : z <= c /\ c <= z + 9)

\* an ASCII character stays, whitespace becomes a blank, a decimal digit of
\* any script becomes the ASCII digit, and anything else (here 0) is an error
AsciiOf(c) ==
  IF 0 < c /\ c <= 127 THEN c
  ELSE IF IsSpace(c) THEN 32
  ELSE IF IsDecimalDigit(c) THEN 48 + DigitValue(c)
  ELSE 0

LowerAscii(c) == IF 65 <= c /\ c <= 90 THEN c + 32 ELSE c

\* stripped, without underscores, in ASCII and lower case
Numeral(text) ==
  [i \in 1..Len(WithoutUnderscores(Strip(text))) |->
     LowerAscii(AsciiOf(WithoutUnderscores(Strip(text))[i]))]

AllDigits(t) == \A i \in 1..Len(t) : 48 <= t[i] /\ t[i] <= 57

DigitsOf(t) == [i \in 1..Len(t) |-> t[i] - 48]

\* the number a sequence of digits denotes
RECURSIVE IntOf(_, _, _)
IntOf(digits, i, acc) ==
  IF i > Len(digits) THEN acc ELSE IntOf(digits, i + 1, 10 * acc + digits[i])

\* the first position of the character c in t, 0 if there is none
FirstAt(t, c) ==
  IF \E i \in 1..Len(t) : t[i] = c
  THEN CHOOSE i \in 1..Len(t) : t[i] = c /\ \A j \in 1..(i - 1) : t[j] # c
  ELSE 0

\* the payload of a NaN: digits without their leading zeros
Payload(t) ==
  IF NatIsZero(DigitsOf(t)) THEN <<>> ELSE StripZeros(DigitsOf(t))

\* the digits before and after the point make the coefficient
ParseDigits(sign, intpart, fracpart, exp) ==
  IF Len(intpart) + Len(fracpart) > 0 /\ AllDigits(intpart) /\ AllDigits(fracpart)
  THEN Dec(sign, StripZeros(DigitsOf(intpart \o fracpart)), exp - Len(fracpart))
  ELSE Exc("InvalidOperation")

\* the coefficient part: digits around one point, if any
ParseCoefficient(sign, body, point, exp) ==
  IF point > 0
  THEN ParseDigits(sign, SubSeq(body, 1, point - 1), SubSeq(body, point + 1, Len(body)), exp)
  ELSE ParseDigits(sign, body, <<>>, exp)

\* the exponent part after the letter e: a sign, if any, and digits
ParseExponent(sign, body, expsign, expdigits) ==
  IF Len(expdigits) > 0 /\ AllDigits(expdigits)
  THEN ParseCoefficient(sign, body, FirstAt(body, 46),
                        expsign * IntOf(DigitsOf(expdigits), 1, 0))
  ELSE Exc("InvalidOperation")

ParseScientific(sign, body, exptext) ==
  IF Len(exptext) > 0 /\ exptext[1] \in {43, 45}
  THEN ParseExponent(sign, body, IF exptext[1] = 45 THEN -1 ELSE 1, Tail(exptext))
  ELSE ParseExponent(sign, body, 1, exptext)

\* a number: coefficient and, after the first e, the exponent
ParseNumber(sign, t, e) ==
  IF e > 0 THEN ParseScientific(sign, SubSeq(t, 1, e - 1), SubSeq(t, e + 1, Len(t)))
  ELSE ParseCoefficient(sign, t, FirstAt(t, 46), 0)

\* the numeral without its sign: inf, infinity, nan or snan with a payload
\* of digits, or a number
ParseUnsigned(sign, t) ==
  IF t = <<105, 110, 102>> \/ t = <<105, 110, 102, 105, 110, 105, 116, 121>>
  THEN Special(sign, <<0>>, "F")
  ELSE IF Len(t) >= 3 /\ SubSeq(t, 1, 3) = <<110, 97, 110>> /\ AllDigits(SubSeq(t, 4, Len(t)))
  THEN Special(sign, Payload(SubSeq(t, 4, Len(t))), "n")
  ELSE IF Len(t) >= 4 /\ SubSeq(t, 1, 4) = <<115, 110, 97, 110>>
          /\ AllDigits(SubSeq(t, 5, Len(t)))
  THEN Special(sign, Payload(SubSeq(t, 5, Len(t))), "N")
  ELSE ParseNumber(sign, t, FirstAt(t, 101))

ParseSigned(t) ==
  IF Len(t) > 0 /\ t[1] \in {43, 45}
  THEN ParseUnsigned(IF t[1] = 45 THEN 1 ELSE 0, Tail(t))
  ELSE ParseUnsigned(0, t)

\* Decimal(text): the value, exactly, or InvalidOperation.  Whitespace
\* around the numeral and underscores anywhere are dropped, digits may be of
\* any script, letters of either case.  (An exponent is taken as an integer
\* of the model, so its numeral has at most 9 digits.)
ParseDecimal(text) == ParseSigned(Numeral(text))

(***************************************************************************)
(* Rounding.                                                               *)
(***************************************************************************)
\* Decimal._round_half_even: 1 to round up, 0 when exact, -1 to round down,
\* on keeping the first `digits` digits of int (digits < Len(int))
RoundHalfEven(int, digits) ==
  IF /\ int[digits + 1] = 5
     /\ \A i \in (digits + 2)..Len(int) : int[i] = 0
     /\ (digits = 0 \/ int[digits] % 2 = 0)
  THEN -1
  ELSE IF int[digits + 1] >= 5 THEN 1
  ELSE IF \A i \in (digits + 1)..Len(int) : int[i] = 0 THEN 0
  ELSE -1

\* the first `digits` digits of int, rounded half-even on the rest
RoundedPrefix(int, digits) ==
  IF RoundHalfEven(int, digits) = 1
  THEN NatAdd(IF digits = 0 THEN <<0>> ELSE SubSeq(int, 1, digits), <<1>>)
  ELSE IF digits = 0 THEN <<0>> ELSE SubSeq(int, 1, digits)

\* a coefficient that rounding made one digit too long loses its last
\* digit; a result above Emax raises Overflow
DecFixRounded(sign, coeff, exp) ==
  IF Len(coeff) > Prec
  THEN (IF exp + 1 > Emax - Prec + 1 THEN Exc("Overflow")
        ELSE Dec(sign, SubSeq(coeff, 1, Len(coeff) - 1), exp + 1))
  ELSE Dec(sign, coeff, exp)

\* a non-zero number whose last digit is to have the exponent exp_min at least
DecFixAt(d, exp_min) ==
  IF d.exp >= exp_min THEN d
  ELSE IF Len(d.int) + d.exp - exp_min < 0
  THEN DecFixRounded(d.sign, RoundedPrefix(<<1>>, 0), exp_min)
  ELSE DecFixRounded(d.sign, RoundedPrefix(d.int, Len(d.int) + d.exp - exp_min), exp_min)

\* Decimal._fix_nan: a payload keeps its last Prec digits
DecFixNaN(d) ==
  IF Len(d.int) > Prec
  THEN Special(d.sign, Payload([i \in 1..Prec |-> 48 + d.int[Len(d.int) - Prec + i]]), d.special)
  ELSE d

\* Decimal._fix: the result of an operation brought into the context:
\* rounded to Prec significant digits, to the exponent Etiny at least
\* (a subnormal), a zero with its exponent between Etiny and Emax
DecFix(d) ==
  IF d.special = "F" THEN d
  ELSE IF d.special # "" THEN DecFixNaN(d)
  ELSE IF NatIsZero(d.int)
  THEN Dec(d.sign, <<0>>, IF d.exp < Etiny THEN Etiny ELSE IF d.exp > Emax THEN Emax ELSE d.exp)
  ELSE IF Len(d.int) + d.exp - Prec > Emax - Prec + 1 THEN Exc("Overflow")
  ELSE DecFixAt(d, IF Len(d.int) + d.exp - Prec < Etiny THEN Etiny
                   ELSE Len(d.int) + d.exp - Prec)

(***************************************************************************)
(* Division and multiplication.                                            *)
(***************************************************************************)
\* Decimal._check_nans: a signaling NaN raises, a NaN is the result
CheckNaNs(a, b) ==
  IF a.special = "N" \/ b.special = "N" THEN Exc("InvalidOperation")
  ELSE IF a.special = "n" THEN DecFixNaN(a)
  ELSE DecFixNaN(b)

\* how many of its trailing zeros, at most limit, coeff can lose
TrailingZeros(coeff, limit) ==
  CHOOSE n \in 0..limit :
    /\ \A i \in (Len(coeff) - n + 1)..Len(coeff) : coeff[i] = 0
    /\ n = limit \/ coeff[Len(coeff) - n] # 0

DropZeros(sign, coeff, exp, n) == Dec(sign, SubSeq(coeff, 1, Len(coeff) - n), exp + n)

\* an exact quotient is brought as close to the ideal exponent as possible
DropTrailingZeros(sign, coeff, exp, ideal) ==
  IF exp >= ideal THEN Dec(sign, coeff, exp)
  ELSE DropZeros(sign, coeff, exp,
                 TrailingZeros(coeff, IF ideal - exp < Len(coeff) - 1 THEN ideal - exp
                                      ELSE Len(coeff) - 1))

\* the quotient and remainder of the coefficients made into the result: an
\* inexact quotient ending in 0 or 5 gets 1 added, so that rounding sees it
DecDivQuotient(sign, dm, exp, ideal) ==
  DecFix(IF NatIsZero(dm.r) THEN DropTrailingZeros(sign, dm.q, exp, ideal)
         ELSE Dec(sign,
                  IF dm.q[Len(dm.q)] % 5 = 0 THEN NatAdd(dm.q, <<1>>) ELSE dm.q,
                  exp))

DecDivShifted(a, b, shift) ==
  DecDivQuotient(XorSign(a.sign, b.sign),
                 NatDivMod(IF shift >= 0 THEN NatShift(a.int, shift) ELSE a.int,
                           IF shift >= 0 THEN b.int ELSE NatShift(b.int, -shift)),
                 a.exp - b.exp - shift,
                 a.exp - b.exp)

\* Decimal.__truediv__ of two Decimals
DecTrueDiv(a, b) ==
  IF IsNaN(a) \/ IsNaN(b) THEN CheckNaNs(a, b)
  ELSE IF a.special = "F" /\ b.special = "F" THEN Exc("InvalidOperation")
  ELSE IF a.special = "F" THEN Special(XorSign(a.sign, b.sign), <<0>>, "F")
  ELSE IF b.special = "F" THEN Dec(XorSign(a.sign, b.sign), <<0>>, Etiny)
  ELSE IF NatIsZero(b.int)
  THEN (IF NatIsZero(a.int) THEN Exc("InvalidOperation") ELSE Exc("DivisionByZero"))
  ELSE IF NatIsZero(a.int) THEN DecFix(Dec(XorSign(a.sign, b.sign), <<0>>, a.exp - b.exp))
  ELSE DecDivShifted(a, b, Len(b.int) - Len(a.int) + Prec + 1)

\* a / b, where computing a or b may have raised
DecDiv(a, b) == IF IsExc(a) THEN a ELSE IF IsExc(b) THEN b ELSE DecTrueDiv(a, b)

\* Decimal.__mul__ of two Decimals
DecTimes(a, b) ==
  IF IsNaN(a) \/ IsNaN(b) THEN CheckNaNs(a, b)
  ELSE IF a.special = "F" \/ b.special = "F"
  THEN (IF DecEqZero(a) \/ DecEqZero(b) THEN Exc("InvalidOperation")
        ELSE Special(XorSign(a.sign, b.sign), <<0>>, "F"))
  ELSE IF NatIsZero(a.int) \/ NatIsZero(b.int)
  THEN DecFix(Dec(XorSign(a.sign, b.sign), <<0>>, a.exp + b.exp))
  ELSE DecFix(Dec(XorSign(a.sign, b.sign), NatMul(a.int, b.int), a.exp + b.exp))

\* a * b, where computing a or b may have raised
DecMul(a, b) == IF IsExc(a) THEN a ELSE IF IsExc(b) THEN b ELSE DecTimes(a, b)

\* Decimal(10) ** p for an integer p: a power of ten with Prec digits at
\* most, padded with zeros to Prec digits when it has more
DecPow10(p) ==
  IF p < 0 THEN DecFix(Dec(0, <<1>>, p))
  ELSE IF p < Prec THEN Dec(0, NatPow10(p), 0)
  ELSE DecFix(Dec(0, NatPow10(Prec - 1), p - (Prec - 1)))

\* d > 0 of a Decimal that is no NaN (for a NaN it raises InvalidOperation)
DecGtZero(d) == d.sign = 0 /\ ~DecEqZero(d)

(***************************************************************************)
(* format(d, ".<places>f").                                                *)
(***************************************************************************)
\* Decimal._rescale(exp, ROUND_HALF_EVEN): the value at the exponent exp
DecRescale(d, exp) ==
  IF DecEqZero(d) THEN Dec(d.sign, <<0>>, exp)
  ELSE IF d.exp >= exp THEN Dec(d.sign, d.int \o Zeros(d.exp - exp), exp)
  ELSE IF Len(d.int) + d.exp - exp < 0 THEN Dec(d.sign, RoundedPrefix(<<1>>, 0), exp)
  ELSE Dec(d.sign, RoundedPrefix(d.int, Len(d.int) + d.exp - exp), exp)

\* the digits of r, which has `places` of them after the point, as text
FixedText(r, places, dotplace) ==
  (IF r.sign = 1 THEN <<45>> ELSE <<>>)
    \o (IF dotplace <= 0 THEN <<48>> ELSE NatToText(SubSeq(r.int, 1, dotplace)))
    \o (IF places > 0 THEN <<46>> ELSE <<>>)
    \o (IF places = 0 THEN <<>>
        ELSE IF dotplace <= 0 THEN NatToText(Zeros(-dotplace) \o r.int)
        ELSE NatToText(SubSeq(r.int, dotplace + 1, Len(r.int))))

FormatRescaled(r, places) == FixedText(r, places, Len(r.int) - places)

\* an infinity or a NaN is shown by its name, a NaN with its payload
SpecialText(d) ==
  (IF d.sign = 1 THEN <<45>> ELSE <<>>)
    \o (IF d.special = "F" THEN Text(<<"I", "n", "f", "i", "n", "i", "t", "y">>)
        ELSE IF d.special = "n" THEN Text(<<"N", "a", "N">>) \o NatToText(d.int)
        ELSE Text(<<"s", "N", "a", "N">>) \o NatToText(d.int))

\* format(d, ".<places>f"): sign, integer digits, point, `places` digits
FormatFixed(d, places) ==
  IF d.special # "" THEN SpecialText(d)
  ELSE FormatRescaled(DecRescale(d, -places), places)

(***************************************************************************)
(* float(Decimal): the nearest IEEE-754 double, ties to even, as the       *)
(* record [sign, m, e, special] of the value (-1)^sign * m * 2^e with      *)
(* 2^52 <= m < 2^53, with m < 2^52 and e = -1074 for a subnormal,          *)
(* or m = 0; special is "inf" or "nan" for an infinity or a NaN.           *)
(***************************************************************************)
FloatMaxBinaryExp == 1024
FloatMinBinaryExp == -1021
FloatMaxDecimalExp == 308
FloatMinDecimalExp == -324

Float(sign, m, e) == [sign |-> sign, m |-> m, e |-> e, special |-> ""]

FloatSpecial(sign, special) == [sign |-> sign, m |-> <<0>>, e |-> 0, special |-> special]

\* the powers of two that the conversion needs most
Pow2Table == [b \in 0..MaxBinaryShift |-> NatPow2(b)]

Pow2(b) == IF b <= MaxBinaryShift THEN Pow2Table[b] ELSE NatPow2(b)

\* a value beyond the largest double, which is below 2^FloatMaxBinaryExp,
\* is an infinity
FloatRanged(sign, m, e) ==
  IF e > FloatMaxBinaryExp - FloatMantissaBits THEN FloatSpecial(sign, "inf") ELSE Float(sign, m, e)

\* a significand that rounding brought to 2^bits is 2^(bits-1), one higher;
\* one that rounding brought to nothing is zero
FloatPack(sign, m, e) ==
  IF NatIsZero(m) THEN Float(sign, <<0>>, 0)
  ELSE IF NatCmp(m, Pow2Table[FloatMantissaBits]) = 0
  THEN FloatRanged(sign, Pow2Table[FloatMantissaBits - 1], e + 1)
  ELSE FloatRanged(sign, m, e)

\* round the leading bits top.q on the bits cut off: half is the cut bits
\* against one half, and inexact says that more follows them
FloatRound(sign, top, half, inexact, e) ==
  FloatPack(sign,
            IF half > 0 \/ (half = 0 /\ (inexact \/ top.q[Len(top.q)] % 2 = 1))
            THEN NatAdd(top.q, <<1>>) ELSE top.q,
            e)

FloatCut(sign, dm, top, j, k) ==
  FloatRound(sign, top, NatCmp(top.r, Pow2(j - 1)), ~NatIsZero(dm.r), j - k)

\* the last j bits of the quotient are cut off
FloatCutAt(sign, dm, j, k) == FloatCut(sign, dm, NatDivMod(dm.q, Pow2(j)), j, k)

\* the quotient has j bits more than a significand holds; a subnormal is
\* cut at the exponent of the last bit of the smallest double
FloatTop(sign, dm, j, k) ==
  FloatCutAt(sign, dm,
             IF j - k < FloatMinBinaryExp - FloatMantissaBits
             THEN k + FloatMinBinaryExp - FloatMantissaBits ELSE j,
             k)

\* the number of bits of q
BitWidth(q) ==
  CHOOSE b \in (FloatMantissaBits + 1)..(FloatMantissaBits + 14) :
    NatCmp(q, Pow2(b - 1)) >= 0 /\ NatCmp(q, Pow2(b)) < 0

FloatOfQuotient(sign, dm, k) == FloatTop(sign, dm, BitWidth(dm.q) - FloatMantissaBits, k)

FloatShifted(sign, num, den, k) ==
  FloatOfQuotient(sign,
                  NatDivMod(IF k >= 0 THEN NatMul(num, Pow2(k)) ELSE num,
                            IF k >= 0 THEN den ELSE NatMul(den, Pow2(-k))),
                  k)

\* the double nearest to num / den (num > 0, den > 0), ties to even: the
\* quotient is taken with k extra binary places, enough for it to have more
\* bits than a significand by the estimate log2(10) * (its decimal digits)
FloatOfRatio(sign, num, den) ==
  FloatShifted(sign, num, den,
               FloatMantissaBits + 3 - ((Len(num) - Len(den) - 1) * 3321) \div 1000)

\* float(d) of a Decimal: ValueError for a signaling NaN; a number of
\* 10^309 or more is an infinity, one below 10^-324 is zero
DecToFloat(d) ==
  IF d.special = "N" THEN Exc("ValueError")
  ELSE IF d.special = "n" THEN FloatSpecial(d.sign, "nan")
  ELSE IF d.special = "F" THEN FloatSpecial(d.sign, "inf")
  ELSE IF NatIsZero(d.int) THEN Float(d.sign, <<0>>, 0)
  ELSE IF Len(StripZeros(d.int)) + d.exp - 1 > FloatMaxDecimalExp THEN FloatSpecial(d.sign, "inf")
  ELSE IF Len(StripZeros(d.int)) + d.exp - 1 < FloatMinDecimalExp THEN Float(d.sign, <<0>>, 0)
  ELSE FloatOfRatio(d.sign,
                    IF d.exp >= 0 THEN NatShift(d.int, d.exp) ELSE d.int,
                    IF d.exp >= 0 THEN <<1>> ELSE NatPow10(-d.exp))

(***************************************************************************)
(* JSON values and Python values.  null/None, an object (a function from   *)
(* its keys to their values) and an array are records tagged by kind.      *)
(***************************************************************************)
None == [kind |-> "None"]

JNull == [kind |-> "null"]

JObject(fields) == [kind |-> "object", fields |-> fields]

JArray(items) == [kind |-> "array", items |-> items]


\* bool(v): None/null, {} and [] are false
Truthy(v) ==
  CASE v.kind = "object" -> DOMAIN v.fields # {}
    [] v.kind = "array" -> Len(v.items) > 0
    [] OTHER -> FALSE

\* dict.get(key, default)
Get(obj, key, default) ==
  IF key \in DOMAIN obj.fields THEN obj.fields[key] ELSE default

(***************************************************************************)
(* get_pool_data: one endpoint attempt.                                    *)
(***************************************************************************)
\* (for C1: the list in another order)
api_urls_reordered ==
  <<"https://api.dex.trading", "https://api.bts.mobi", "https://dexnode.net">>

api_urls == <<"https://api.bts.mobi", "https://api.dex.trading", "https://dexnode.net">>

\* the JSON-RPC request posted to an endpoint
Request(api_url, pool_id) ==
  [url |-> api_url, path |-> "/rpc", content_type |-> "application/json",
   id |-> 1, method |-> "call",
   params |-> <<0, "get_objects", <<<<pool_id>>>> >>, timeout |-> Timeout]

\* What an endpoint does with a request: the transport fails (requests.post
\* raises), or a response comes back with a status and a body, the body being
\* JSON or not.
TransportError(exc) == [transport |-> exc, status |-> 0, body |-> JNull]

HttpResponse(status, body) == [transport |-> "ok", status |-> status, body |-> body]

Malformed == [kind |-> "malformed"]

Returned(value) == [outcome |-> "return", value |-> value, err |-> ""]
Raised(err) == [outcome |-> "except", value |-> None, err |-> err]
FellThrough == [outcome |-> "next", value |-> None, err |-> ""]

\* (for C3: the try block without the check of the status code)
AttemptAnyStatus(resp) ==
  IF resp.transport # "ok" THEN Raised(resp.transport)
  ELSE IF resp.body.kind = "malformed" THEN Raised("JSONDecodeError")
  ELSE IF resp.body.kind # "object" THEN Raised("AttributeError")
  ELSE IF ~Truthy(Get(resp.body, "result", None)) THEN FellThrough
  ELSE IF Truthy(Get(resp.body, "result", None).items[1])
  THEN Returned(Get(resp.body, "result", None).items[1])
  ELSE FellThrough

\* the body of the try block for one endpoint: the record returned, the
\* exception caught, or neither (the loop goes on without a word)
Attempt(resp) ==
  IF resp.transport # "ok" THEN Raised(resp.transport)
  ELSE IF resp.status # 200 THEN FellThrough
  ELSE IF resp.body.kind = "malformed" THEN Raised("JSONDecodeError")
  ELSE IF resp.body.kind # "object" THEN Raised("AttributeError")
  ELSE LET result == Get(resp.body, "result", None)
       IN IF ~Truthy(result) THEN FellThrough
          ELSE IF result.kind = "object" THEN Raised("KeyError")
          ELSE IF Truthy(result.items[1]) THEN Returned(result.items[1])
          ELSE FellThrough

(***************************************************************************)
(* calculate_exchange_rate.  Its result is the record of what it computed  *)
(* and printed, or, when a Decimal operation raised, [exc, out]: the       *)
(* exception and what was printed before it.                               *)
(***************************************************************************)
ZeroText == <<48>>

\* balance / 10^precision of one side of the pool
NormalizedBalance(pool, key, precision) ==
  DecDiv(ParseDecimal(Get(pool, key, ZeroText)), DecPow10(precision))

\* what calculate_exchange_rate prints before it normalizes
RawPrinted(pool_data) ==
  << [line |-> "Asset A ID", value |-> Get(pool_data, "asset_a", None)],
     [line |-> "Asset B ID", value |-> Get(pool_data, "asset_b", None)],
     [line |-> "Raw Balance A", value |-> Get(pool_data, "balance_a", ZeroText)],
     [line |-> "Raw Balance B", value |-> Get(pool_data, "balance_b", ZeroText)] >>

\* what calculate_exchange_rate prints
CalcPrinted(pool_data, balance_a, balance_b) ==
  RawPrinted(pool_data)
    \o << [line |-> "Actual Balance A", value |-> balance_a],
          [line |-> "Actual Balance B", value |-> balance_b] >>

CalcRaised(exc, printed) == [exc |-> exc.exc, out |-> printed]

\* (for C4: rates of zero for an empty side)
EmptySideZeroRates(pool_data, balance_a, balance_b) ==
  [balance_a |-> balance_a, balance_b |-> balance_b,
   rate_a_to_b |-> Dec(0, <<0>>, 0), rate_b_to_a |-> Dec(0, <<0>>, 0),
   out |-> CalcPrinted(pool_data, balance_a, balance_b)]

\* a side of the pool is empty: the warning and (None, None)
EmptySide(pool_data, balance_a, balance_b) ==
  [balance_a |-> balance_a, balance_b |-> balance_b,
   rate_a_to_b |-> None, rate_b_to_a |-> None,
   out |-> Append(CalcPrinted(pool_data, balance_a, balance_b),
                  [line |-> "Warning: One of the balances is zero!"])]

\* the two rates returned, unless the first or else the second division raised
RatesReturned(pool_data, balance_a, balance_b, rate_a_to_b, rate_b_to_a) ==
  IF IsExc(rate_a_to_b) THEN CalcRaised(rate_a_to_b, CalcPrinted(pool_data, balance_a, balance_b))
  ELSE IF IsExc(rate_b_to_a)
  THEN CalcRaised(rate_b_to_a, CalcPrinted(pool_data, balance_a, balance_b))
  ELSE [balance_a |-> balance_a, balance_b |-> balance_b,
        rate_a_to_b |-> rate_a_to_b, rate_b_to_a |-> rate_b_to_a,
        out |-> CalcPrinted(pool_data, balance_a, balance_b)]

\* (for C5: the two rates in the other order)
QuotientsSwapped(pool_data, balance_a, balance_b) ==
  RatesReturned(pool_data, balance_a, balance_b,
                DecDiv(balance_a, balance_b), DecDiv(balance_b, balance_a))

\* rate_a_to_b = balance_b / balance_a and rate_b_to_a = balance_a / balance_b
Quotients(pool_data, balance_a, balance_b) ==
  RatesReturned(pool_data, balance_a, balance_b,
                DecDiv(balance_b, balance_a), DecDiv(balance_a, balance_b))

\* the function from the normalized balances on: an exception of the
\* normalization goes on to the caller; (None, None) when a side of the pool
\* is empty, else the two quotients.  (== 0 raises for a signaling NaN.)
RatesOf(pool_data, balance_a, balance_b) ==
  IF IsExc(balance_a) THEN CalcRaised(balance_a, RawPrinted(pool_data))
  ELSE IF IsExc(balance_b) THEN CalcRaised(balance_b, RawPrinted(pool_data))
  ELSE IF balance_a.special = "N"
  THEN CalcRaised(Exc("InvalidOperation"), CalcPrinted(pool_data, balance_a, balance_b))
  ELSE IF DecEqZero(balance_a) THEN EmptySide(pool_data, balance_a, balance_b)
  ELSE IF balance_b.special = "N"
  THEN CalcRaised(Exc("InvalidOperation"), CalcPrinted(pool_data, balance_a, balance_b))
  ELSE IF DecEqZero(balance_b) THEN EmptySide(pool_data, balance_a, balance_b)
  ELSE Quotients(pool_data, balance_a, balance_b)

calculate_exchange_rate(pool_data, asset_a_precision, asset_b_precision) ==
  RatesOf(pool_data,
          NormalizedBalance(pool_data, "balance_a", asset_a_precision),
          NormalizedBalance(pool_data, "balance_b", asset_b_precision))

(***************************************************************************)
(* The inputs the model draws from.                                        *)
(***************************************************************************)
pool_id == "1.19.507"

IntText(n) == NatToText(NatFromInt(n))

\* a pool object with the given balance texts
Pool(a, b) ==
  JObject([balance_a |-> a, balance_b |-> b, asset_a |-> "1.3.6268", asset_b |-> "1.3.6574"])

\* the spec's examples, an empty side, missing balances, a taker fee
PoolExample == Pool(IntText(1000), IntText(1000))
PoolLarge ==
  JObject([balance_a |-> IntText(123450000), balance_b |-> IntText(7),
           asset_a |-> "1.3.6268", asset_b |-> "1.3.6574", taker_fee_percent |-> 30])
PoolEmptyB == Pool(IntText(1000), ZeroText)
PoolNoBalanceA == JObject([balance_b |-> IntText(1000), asset_a |-> "1.3.6268", asset_b |-> "1.3.6574"])
PoolStale == Pool(IntText(5), IntText(3))

\* records whose balances are no integers: a text that is no numeral, and
\* numerals with an exponent whose product is beyond Emax
PoolNotNumeric == Pool(IntText(1000), Text(<<"a", "b", "c">>))
PoolOverflow ==
  Pool(Text(<<"1", "e", "6", "0", "0", "0", "0", "4">>),
       Text(<<"1", "e", "6", "0", "0", "0", "0", "2">>))

FetchedPools ==
  {PoolExample, PoolLarge, PoolEmptyB, PoolNoBalanceA, PoolNotNumeric, PoolOverflow}

\* what an endpoint may answer: the failures of the spec's list, each once,
\* and a good answer with one of the pools
FailureResponses ==
  { TransportError("ConnectionError"),
    TransportError("Timeout"),
    HttpResponse(500, JObject([result |-> JArray(<<PoolStale>>)])),
    HttpResponse(200, Malformed),
    HttpResponse(200, JObject([result |-> JNull])),
    HttpResponse(200, JObject([result |-> JArray(<<>>)])),
    HttpResponse(200, JObject([result |-> JArray(<<JNull>>)])),
    HttpResponse(200, JObject([result |-> JArray(<<JObject([k \in {} |-> 0])>>)])) }

GoodResponses == { HttpResponse(200, JObject([result |-> JArray(<<p>>)])) : p \in FetchedPools }

Responses == FailureResponses \cup GoodResponses

\* the records and precisions of the direct calls of calculate_exchange_rate:
\* integer balances, and a balance that is no numeral
BalanceTexts == { IntText(n) : n \in 0..MaxBalance } \cup { IntText(1000), IntText(123450000) }

DirectPools ==
  { Pool(a, b) : a \in BalanceTexts, b \in BalanceTexts }
    \cup { JObject([balance_b |-> b]) : b \in BalanceTexts }
    \cup { JObject([balance_a |-> a]) : a \in BalanceTexts }
    \cup { PoolNotNumeric }

Precisions == 0..MaxPrecision

\* what the user may type at the two prompts
XBTSX_WRAM == Text(<<"X", "B", "T", "S", "X", ".", "W", "R", "A", "M">>)
BTWTY_EOS == Text(<<"B", "T", "W", "T", "Y", ".", "E", "O", "S">>)

\* the symbols as they are, in lower case, with blanks, a tab or a newline
\* around them, with a long s (code point 383), and texts that are no symbol
AssetTexts ==
  { XBTSX_WRAM, BTWTY_EOS,
    Text(<<" ", "x", "b", "t", "s", "x", ".", "w", "r", "a", "m", " ">>),
    <<9>> \o Text(<<"x", "b", "t", "s", "x", ".", "w", "r", "a", "m">>),
    Text(<<"b", "t", "w", "t", "y", ".", "e", "o", "s">>) \o <<10>>,
    Text(<<"x", "b", "t">>) \o <<383>> \o Text(<<"x", ".", "w", "r", "a", "m">>),
    Text(<<"E", "O", "S">>), <<>> }

\* numerals, plain, with whitespace, an exponent, an underscore or digits
\* of another script (code points 1633, 1634), the special values, and
\* texts that are no numeral
AmountTexts ==
  { Text(<<"1", "0", "0">>), Text(<<"2", ".", "5">>), Text(<<"0">>),
    Text(<<" ", "7", " ">>), <<9, 55, 10>>,
    Text(<<"1", "e", "3">>), Text(<<"1", "_", "0">>), <<1633, 1634>>,
    Text(<<"I", "n", "f", "i", "n", "i", "t", "y">>), Text(<<"N", "a", "N">>),
    Text(<<"s", "N", "a", "N">>),
    Text(<<"a", "b", "c">>), <<>> }

(***************************************************************************)
(* The program as a state machine.  A step ends where the code blocks: in  *)
(* requests.post, after the announcement of the endpoint is printed, and   *)
(* in input().                                                             *)
(***************************************************************************)
VARIABLES
  pc,            \* "idle", "fetch", "prompt_asset", "prompt_amount", "done"
  entry,         \* the function that was called
  idx,           \* position in api_urls of the endpoint tried next
  attempts,      \* the requests sent so far, with what came back
  log,           \* the lines printed so far
  pool_data,     \* the record get_pool_data returned, or None
  precision,     \* the two precisions of the call
  calc,          \* what calculate_exchange_rate returned with, or None
  calc_calls,    \* how many times calculate_exchange_rate was called
  asset_input,   \* the asset typed, stripped and upper-cased
  amount_input,  \* the amount typed, as a Decimal
  quote,         \* the bridge quote, or None
  ret            \* how the call ended: pending, a value, or an exception

vars == <<pc, entry, idx, attempts, log, pool_data, precision, calc, calc_calls,
          asset_input, amount_input, quote, ret>>

Pending == [kind |-> "pending"]
Exception(exc) == [kind |-> "exception", exc |-> exc]
RatePair(c) == [kind |-> "pair", rate_a_to_b |-> c.rate_a_to_b, rate_b_to_a |-> c.rate_b_to_a]
FloatValue(f) == [kind |-> "float", value |-> f]

Separator == [line |-> "--------------------------------------------------"]

Init ==
  /\ pc = "idle"
  /\ entry = "none"
  /\ idx = 1
  /\ attempts = <<>>
  /\ log = <<>>
  /\ pool_data = None
  /\ precision = [a |-> DefaultPrecisionA, b |-> DefaultPrecisionB]
  /\ calc = None
  /\ calc_calls = 0
  /\ asset_input = <<>>
  /\ amount_input = None
  /\ quote = None
  /\ ret = Pending

\* main() up to the first request of get_pool_data: the announcement of the
\* first endpoint is printed before the code blocks in requests.post
CallMain ==
  /\ pc = "idle"
  /\ pc' = "fetch"
  /\ entry' = "main"
  /\ precision' = [a |-> DefaultPrecisionA, b |-> DefaultPrecisionB]
  /\ log' = << [line |-> "Getting data for pool", pool |-> pool_id],
               [line |-> "Asset A (1.3.6268) precision", value |-> DefaultPrecisionA],
               [line |-> "Asset B (1.3.6574) precision", value |-> DefaultPrecisionB],
               Separator,
               [line |-> "Trying API", url |-> api_urls[1]] >>
  /\ UNCHANGED <<idx, attempts, pool_data, calc, calc_calls, asset_input,
                 amount_input, quote, ret>>

\* get_single_rate(pool_id, precision_a, precision_b) up to the first
\* request of get_pool_data
CallGetSingleRate(precision_a, precision_b) ==
  /\ pc = "idle"
  /\ pc' = "fetch"
  /\ entry' = "get_single_rate"
  /\ precision' = [a |-> precision_a, b |-> precision_b]
  /\ log' = Append(log, [line |-> "Trying API", url |-> api_urls[1]])
  /\ UNCHANGED <<idx, attempts, pool_data, calc, calc_calls, asset_input,
                 amount_input, quote, ret>>

\* calculate_exchange_rate ends, by a return or by an exception
CalculateReturned(c) ==
  /\ log' = c.out
  /\ IF IsExc(c)
     THEN calc' = None /\ ret' = Exception(c.exc)
     ELSE calc' = c /\ ret' = RatePair(c)

\* calculate_exchange_rate(pool, a, b), called on its own
CallCalculate(pool, asset_a_precision, asset_b_precision) ==
  /\ pc = "idle"
  /\ CalculateReturned(calculate_exchange_rate(pool, asset_a_precision, asset_b_precision))
  /\ pc' = "done"
  /\ entry' = "calculate_exchange_rate"
  /\ pool_data' = pool
  /\ precision' = [a |-> asset_a_precision, b |-> asset_b_precision]
  /\ calc_calls' = calc_calls + 1
  /\ UNCHANGED <<idx, attempts, asset_input, amount_input, quote>>

\* pool_data['taker_fee_percent'] / 100 of an integer fee
TakerFee(n) ==
  IF n = 0 THEN Float(0, <<0>>, 0)
  ELSE FloatOfRatio(IF n < 0 THEN 1 ELSE 0, NatFromInt(IF n < 0 THEN -n ELSE n), NatFromInt(100))

\* what main prints from the rates to the constant product
RatesPrinted(fetched, c) ==
  << Separator,
     [line |-> "EXCHANGE RATES:"],
     [line |-> "Asset A -> Asset B", text |-> FormatFixed(c.rate_a_to_b, 8)],
     [line |-> "Asset B -> Asset A", text |-> FormatFixed(c.rate_b_to_a, 8)],
     Separator >>
    \o (IF "taker_fee_percent" \in DOMAIN fetched.fields
        THEN << [line |-> "Taker Fee", value |-> TakerFee(fetched.fields["taker_fee_percent"])] >>
        ELSE <<>>)

\* main() once the rates are there: their display, the fee, the constant
\* product k, and on to the first prompt, unless the product raised
MainShowRates(fetched, printed, c, k) ==
  IF IsExc(k)
  THEN /\ log' = printed \o RatesPrinted(fetched, c)
       /\ pc' = "done"
       /\ ret' = Exception(k.exc)
  ELSE /\ log' = printed \o RatesPrinted(fetched, c)
                   \o << [line |-> "Constant Product (k)", value |-> k],
                         Separator,
                         [line |-> "BRIDGE EXCHANGE:"] >>
       /\ pc' = "prompt_asset"
       /\ ret' = Pending

\* main() from the return of calculate_exchange_rate, or from its exception
MainAfterCalc(fetched, printed, c) ==
  /\ calc_calls' = calc_calls + 1
  /\ IF IsExc(c)
     THEN /\ calc' = None
          /\ log' = printed \o c.out
          /\ pc' = "done"
          /\ ret' = Exception(c.exc)
     ELSE /\ calc' = c
          /\ IF c.rate_a_to_b = None
             THEN /\ log' = Append(printed \o c.out,
                                   [line |-> "Could not calculate exchange rates"])
                  /\ pc' = "done"
                  /\ ret' = None
             ELSE MainShowRates(fetched, printed \o c.out, c,
                                DecMul(NormalizedBalance(fetched, "balance_a", precision.a),
                                       NormalizedBalance(fetched, "balance_b", precision.b)))

\* (for C2: main going on to the prompt without a record)
MainAfterFetchUnchecked(fetched, printed) ==
  IF ~Truthy(fetched)
  THEN /\ log' = Append(printed, [line |-> "Failed to retrieve pool data"])
       /\ pc' = "prompt_asset"
       /\ ret' = Pending
       /\ UNCHANGED <<calc, calc_calls>>
  ELSE MainAfterCalc(fetched, Append(printed, Separator),
                     calculate_exchange_rate(fetched, precision.a, precision.b))

\* main() from the return of get_pool_data to the first prompt, or to its end
MainAfterFetch(fetched, printed) ==
  IF ~Truthy(fetched)
  THEN /\ log' = Append(printed, [line |-> "Failed to retrieve pool data"])
       /\ pc' = "done"
       /\ ret' = None
       /\ UNCHANGED <<calc, calc_calls>>
  ELSE MainAfterCalc(fetched, Append(printed, Separator),
                     calculate_exchange_rate(fetched, precision.a, precision.b))

\* float(rate) returned, or the exception of the division or of float()
SingleRateOf(rate) ==
  IF IsExc(rate) THEN Exception(rate.exc)
  ELSE IF IsExc(DecToFloat(rate)) THEN Exception(DecToFloat(rate).exc)
  ELSE FloatValue(DecToFloat(rate))

\* how get_single_rate ends for the normalized balances: an exception of
\* the normalization or of balance_a > 0, the rate, or None
SingleRate(balance_a, balance_b) ==
  IF IsExc(balance_a) THEN Exception(balance_a.exc)
  ELSE IF IsExc(balance_b) THEN Exception(balance_b.exc)
  ELSE IF IsNaN(balance_a) THEN Exception("InvalidOperation")
  ELSE IF DecGtZero(balance_a) THEN SingleRateOf(DecDiv(balance_b, balance_a))
  ELSE None

\* get_single_rate from the return of get_pool_data to its end
SingleRateAfterFetch(fetched, printed) ==
  /\ log' = printed
  /\ pc' = "done"
  /\ UNCHANGED <<calc, calc_calls>>
  /\ ret' = IF Truthy(fetched)
            THEN SingleRate(NormalizedBalance(fetched, "balance_a", precision.a),
                            NormalizedBalance(fetched, "balance_b", precision.b))
            ELSE None

\* get_pool_data returns `value` and its caller runs on to where it blocks
Resume(value, printed) ==
  /\ pool_data' = value
  /\ idx' = idx
  /\ IF entry = "main" THEN MainAfterFetch(value, printed)
     ELSE SingleRateAfterFetch(value, printed)

\* what one pass of the loop prints once the request has ended (the
\* announcement of the endpoint was printed before the request was sent)
AttemptLog(api_url, att) ==
  log \o (CASE att.outcome = "return" -> << [line |-> "Successfully got data", url |-> api_url] >>
            [] att.outcome = "except" -> << [line |-> "Failed", url |-> api_url, err |-> att.err] >>
            [] OTHER -> <<>>)

\* after the try block: return the record, give up after the last endpoint,
\* or announce the next endpoint and send the request to it
AfterAttempt(att, printed) ==
  IF att.outcome = "return" THEN Resume(att.value, printed)
  ELSE IF idx = Len(api_urls)
  THEN Resume(None, Append(printed, [line |-> "Failed to get data from any API endpoint"]))
  ELSE /\ idx' = idx + 1
       /\ log' = Append(printed, [line |-> "Trying API", url |-> api_urls[idx + 1]])
       /\ UNCHANGED <<pc, pool_data, calc, calc_calls, ret>>

EndpointStep(api_url, resp, att) ==
  /\ attempts' = Append(attempts, [request |-> Request(api_url, pool_id),
                                   response |-> resp,
                                   outcome |-> att.outcome])
  /\ AfterAttempt(att, AttemptLog(api_url, att))

\* The request to api_urls[idx] ends with `resp`: what the code makes of the
\* answer, and on to where it blocks next: in the request to the next
\* endpoint, announced first, or, when the loop ends here by the return of a
\* record or after the last endpoint, where the caller blocks or ends.
TryEndpoint(resp) ==
  /\ pc = "fetch"
  /\ EndpointStep(api_urls[idx], resp, Attempt(resp))
  /\ UNCHANGED <<entry, precision, asset_input, amount_input, quote>>

\* input("Enter asset to exchange ...").strip().upper()
ReadAsset(text) ==
  /\ pc = "prompt_asset"
  /\ asset_input' = Upper(Strip(text))
  /\ pc' = "prompt_amount"
  /\ UNCHANGED <<entry, idx, attempts, log, pool_data, precision, calc, calc_calls,
                 amount_input, quote, ret>>

\* Decimal("0.975") (for C7: a multiplier of 1)
bridge_rate_multiplier_unit == Dec(0, <<1>>, 0)

bridge_rate_multiplier == ParseDecimal(Text(<<"0", ".", "9", "7", "5">>))

QuoteShown(direction, bridge_exchange_rate, exchanged_amount, places) ==
  [kind |-> "quote",
   direction |-> direction,
   bridge_exchange_rate |-> bridge_exchange_rate,
   exchanged_amount |-> exchanged_amount,
   rate_text |-> FormatFixed(bridge_exchange_rate, 8),
   amount_text |-> FormatFixed(exchanged_amount, places)]

\* the two products, or the exception of the first that raised
QuoteOf(direction, bridge_exchange_rate, exchanged_amount, places) ==
  IF IsExc(exchanged_amount) THEN exchanged_amount
  ELSE QuoteShown(direction, bridge_exchange_rate, exchanged_amount, places)

\* the quote for an amount at a base rate, shown to `places` decimals
BridgeQuote(direction, base_rate, amount, places) ==
  QuoteOf(direction,
          DecMul(base_rate, bridge_rate_multiplier),
          DecMul(amount, DecMul(base_rate, bridge_rate_multiplier)),
          places)

\* the two lines of the quote; nothing is printed when a product raised
PrintQuote(q, asset) ==
  IF IsExc(q)
  THEN /\ ret' = Exception(q.exc)
       /\ UNCHANGED <<quote, log>>
  ELSE /\ ret' = None
       /\ quote' = q
       /\ log' = log \o << [line |-> "Bridge Exchange Rate", direction |-> q.direction,
                            text |-> q.rate_text],
                           [line |-> "Exchanged Amount", text |-> q.amount_text,
                            asset |-> asset] >>

\* main() from the amount on: the branch on the asset typed
Exchange(amount) ==
  IF asset_input = XBTSX_WRAM
  THEN PrintQuote(BridgeQuote("XBTSX.WRAM -> BTWTY.EOS", calc.rate_b_to_a, amount, 4), "BTWTY.EOS")
  ELSE IF asset_input = BTWTY_EOS
  THEN PrintQuote(BridgeQuote("BTWTY.EOS -> XBTSX.WRAM", calc.rate_a_to_b, amount, 2), "XBTSX.WRAM")
  ELSE /\ ret' = None
       /\ quote' = None
       /\ log' = Append(log, [line |-> "Invalid asset entered. Please choose XBTSX.WRAM or BTWTY.EOS."])

\* Decimal(text) raised, or the amount is there
AmountRead(amount) ==
  IF IsExc(amount)
  THEN /\ ret' = Exception(amount.exc)
       /\ UNCHANGED <<amount_input, quote, log>>
  ELSE /\ amount_input' = amount
       /\ Exchange(amount)

\* Decimal(input("Enter amount to exchange: ")) and the rest of main()
ReadAmount(text) ==
  /\ pc = "prompt_amount"
  /\ pc' = "done"
  /\ AmountRead(ParseDecimal(text))
  /\ UNCHANGED <<entry, idx, attempts, pool_data, precision, calc, calc_calls, asset_input>>

Next ==
  \/ CallMain
  \/ \E a \in {DefaultPrecisionA}, b \in {DefaultPrecisionB, 0} : CallGetSingleRate(a, b)
  \/ \E pool \in DirectPools, a \in Precisions, b \in Precisions : CallCalculate(pool, a, b)
  \/ \E resp \in Responses : TryEndpoint(resp)
  \/ \E text \in AssetTexts : ReadAsset(text)
  \/ \E text \in AmountTexts : ReadAmount(text)

Spec == Init /\ [][Next]_vars

(***************************************************************************)
(* The properties.  What they need of the program is read off the state:   *)
(* the requests sent, the lines printed, the values returned.              *)
(***************************************************************************)

\* the endpoint list as the specification gives it
ConfiguredEndpoints ==
  <<"https://api.bts.mobi", "https://api.dex.trading", "https://dexnode.net">>

\* the fetch of this state was made by main or get_single_rate
Fetching == entry \in {"main", "get_single_rate"}

\* an answer that has a result array
HasResultArray(resp) ==
  /\ resp.transport = "ok"
  /\ resp.body.kind = "object"
  /\ "result" \in DOMAIN resp.body.fields
  /\ resp.body.fields["result"].kind = "array"

\* a value that is neither null nor empty
NonEmpty(v) ==
  \/ v.kind = "object" /\ DOMAIN v.fields # {}
  \/ v.kind = "array" /\ v.items # <<>>

\* the endpoint answered HTTP 200 with a non-empty result[0]
Answers(resp) ==
  /\ HasResultArray(resp)
  /\ resp.status = 200
  /\ resp.body.fields["result"].items # <<>>
  /\ NonEmpty(resp.body.fields["result"].items[1])

\* result[0] of an answer that has one
FirstResult(resp) == resp.body.fields["result"].items[1]

\* the text of a printed line, "" where the log is shorter
LineAt(i) == IF i \in 1..Len(log) THEN log[i].line ELSE ""

Printed(text) == \E i \in 1..Len(log) : log[i].line = text

\* the lines main prints once it has rates, and the prompts after them
RateLines == {"EXCHANGE RATES:", "Asset A -> Asset B", "Asset B -> Asset A",
              "BRIDGE EXCHANGE:", "Bridge Exchange Rate", "Exchanged Amount"}

Prompted == pc \in {"prompt_asset", "prompt_amount"} \/ asset_input # <<>> \/ amount_input # None

\* C1: the endpoints contacted are a prefix of the configured list, in list
\* order and each at most once; no endpoint is contacted after one that
\* answered HTTP 200 with a non-empty result[0]; the fetch ends at the first
\* such endpoint and returns that endpoint's result[0], or ends after the
\* last endpoint of the list.
C1_EndpointsTriedInOrder ==
  /\ Len(attempts) <= Len(ConfiguredEndpoints)
  /\ \A i \in 1..Len(attempts) :
       /\ attempts[i].request.url = ConfiguredEndpoints[i]
       /\ i < Len(attempts) => ~Answers(attempts[i].response)
  /\ pc = "fetch" =>
       /\ idx = Len(attempts) + 1
       /\ idx <= Len(ConfiguredEndpoints)
       /\ \A i \in 1..Len(attempts) : ~Answers(attempts[i].response)
  /\ (Fetching /\ pc # "fetch") =>
       /\ Len(attempts) >= 1
       /\ IF Answers(attempts[Len(attempts)].response)
          THEN pool_data = FirstResult(attempts[Len(attempts)].response)
          ELSE Len(attempts) = Len(ConfiguredEndpoints) /\ pool_data = None

\* the second endpoint answered after the first failed, and the fetch ended there
C1_Witness ==
  /\ Fetching
  /\ pc # "fetch"
  /\ Len(attempts) = 2
  /\ ~Answers(attempts[1].response)
  /\ Answers(attempts[2].response)
  /\ attempts[2].request.url = "https://api.dex.trading"
  /\ pool_data = FirstResult(attempts[2].response)

\* C2: when every configured endpoint has failed, get_pool_data has returned
\* None; main has reported the failure and ended, without a call of
\* calculate_exchange_rate, without a printed rate and without a prompt, and
\* get_single_rate has returned None.
C2_AllEndpointsFail ==
  ( /\ Fetching
    /\ Len(attempts) = Len(ConfiguredEndpoints)
    /\ \A i \in 1..Len(attempts) : ~Answers(attempts[i].response) )
  => /\ pool_data = None
     /\ pc = "done"
     /\ ret = None
     /\ calc_calls = 0
     /\ calc = None
     /\ quote = None
     /\ ~Prompted
     /\ \A i \in 1..Len(log) : log[i].line \notin RateLines
     /\ Printed("Failed to get data from any API endpoint")
     /\ entry = "main" => LineAt(Len(log)) = "Failed to retrieve pool data"

\* main ended after three failed endpoints
C2_Witness ==
  /\ entry = "main"
  /\ pc = "done"
  /\ Len(attempts) = 3
  /\ \A i \in 1..3 : ~Answers(attempts[i].response)
  /\ LineAt(Len(log)) = "Failed to retrieve pool data"

\* the failure kinds of the specification's list
FailureKind(resp) ==
  IF resp.transport # "ok" THEN "transport error or timeout"
  ELSE IF resp.status # 200 THEN "non-200 HTTP status"
  ELSE IF resp.body.kind = "malformed" THEN "malformed JSON"
  ELSE IF resp.body.kind = "object" /\ "result" \in DOMAIN resp.body.fields
          /\ resp.body.fields["result"].kind = "null" THEN "null result"
  ELSE IF HasResultArray(resp) /\ resp.body.fields["result"].items = <<>> THEN "empty result"
  ELSE IF HasResultArray(resp) /\ ~NonEmpty(FirstResult(resp)) THEN "null or empty result[0]"
  ELSE "none"

\* the record an answer carries as result[0], whatever its status
Carries(resp, record) ==
  /\ HasResultArray(resp)
  /\ resp.body.fields["result"].items # <<>>
  /\ FirstResult(resp) = record

\* C3: an endpoint whose answer is one of the failure kinds does not end the
\* fetch with a record: the next endpoint is tried (or, after the last one,
\* None is returned), no exception reaches the caller, and the record returned
\* is result[0] of the endpoint that answered, never the content of a failed
\* one.  After HTTP 500 from the first endpoint and a valid answer from the
\* second, the fetch returns the second endpoint's result[0].
C3_FailureIsEndpointLocal ==
  /\ \A i \in 1..Len(attempts) :
       FailureKind(attempts[i].response) # "none" =>
         /\ attempts[i].outcome # "return"
         /\ \/ i < Len(attempts)
            \/ pc = "fetch" /\ idx = i + 1
            \/ i = Len(ConfiguredEndpoints) /\ pc = "done" /\ pool_data = None
         /\ (Fetching /\ pool_data # None) => ~Carries(attempts[i].response, pool_data)
  /\ (Fetching /\ ret.kind = "exception") => pc = "done" /\ pool_data # None
  /\ ( /\ Len(attempts) >= 2
       /\ attempts[1].response.transport = "ok"
       /\ attempts[1].response.status = 500
       /\ Answers(attempts[2].response) )
     => /\ Len(attempts) = 2
        /\ pc # "fetch"
        /\ pool_data = FirstResult(attempts[2].response)
        /\ ~Carries(attempts[1].response, pool_data)

\* HTTP 500 with a record in its body, then a valid answer
C3_Witness ==
  /\ Len(attempts) = 2
  /\ attempts[1].response.status = 500
  /\ \E record \in {PoolStale} : Carries(attempts[1].response, record)
  /\ Answers(attempts[2].response)
  /\ pool_data = FirstResult(attempts[2].response)
  /\ pool_data # PoolStale

(***************************************************************************)
(* Exact decimal values for the properties about rates and quotes: a value *)
(* is sign, coefficient and exponent with a coefficient of any length, and *)
(* values are compared by their coefficients at a common exponent.         *)
(***************************************************************************)
Min(a, b) == IF a < b THEN a ELSE b

\* the coefficient of d at the exponent e <= d.exp
CoeffAt(d, e) == NatShift(StripZeros(d.int), d.exp - e)

SameValue(x, y) ==
  /\ NatCmp(CoeffAt(x, Min(x.exp, y.exp)), CoeffAt(y, Min(x.exp, y.exp))) = 0
  /\ x.sign = y.sign \/ NatIsZero(x.int)

AbsDiff(a, b) == IF NatCmp(a, b) >= 0 THEN NatSub(a, b) ELSE NatSub(b, a)

\* -1, 0, 1 as |x - y| is below, at or above tol, for values of one sign
CmpDistanceAt(x, y, tol, e) ==
  NatCmp(AbsDiff(CoeffAt(x, e), CoeffAt(y, e)), CoeffAt(tol, e))

CmpDistance(x, y, tol) == CmpDistanceAt(x, y, tol, Min(Min(x.exp, y.exp), tol.exp))

\* the unrounded product
ExactProduct(x, y) == Dec(XorSign(x.sign, y.sign), NatMul(x.int, y.int), x.exp + y.exp)

Twice(x) == Dec(x.sign, NatMulDigit(x.int, 2), x.exp)

One == Dec(0, <<1>>, 0)

\* one unit in the last place of r
Ulp(r) == Dec(0, <<1>>, r.exp)

LastDigitEven(r) == r.int[Len(r.int)] % 2 = 0

\* r * scale is target, or r has all 28 digits and r * scale is within half a
\* unit of its last place (times scale) of target, an exact half only towards
\* an even last digit: r is target / scale rounded half-even to 28 digits
RoundedTo28(r, scale, target) ==
  \/ SameValue(ExactProduct(r, scale), target)
  \/ /\ Len(r.int) = 28
     /\ r.sign = XorSign(scale.sign, target.sign)
     /\ \/ CmpDistance(Twice(ExactProduct(r, scale)), Twice(target), ExactProduct(Ulp(r), scale)) < 0
        \/ /\ CmpDistance(Twice(ExactProduct(r, scale)), Twice(target), ExactProduct(Ulp(r), scale)) = 0
           /\ LastDigitEven(r)

\* the digits of a balance text, for a text of digits
TextDigits(t) == [i \in 1..Len(t) |-> t[i] - 48]

IsDigits(t) == Len(t) > 0 /\ \A i \in 1..Len(t) : 48 <= t[i] /\ t[i] <= 57

\* the raw balance of the record of this state: "0" when the key is absent
RawBalance(key) ==
  IF key \in DOMAIN pool_data.fields THEN pool_data.fields[key] ELSE ZeroText

\* balance / 10^precision, exactly
Amount(key, p) == Dec(0, StripZeros(TextDigits(RawBalance(key))), -p)

IsZeroText(t) == \A i \in 1..Len(t) : t[i] = 48

\* calculate_exchange_rate has returned in this state
Calculated == calc # None

\* a rate that is a number
Defined(rate) == rate # None /\ "special" \in DOMAIN rate /\ rate.special = ""

\* both balances of the record are integers in decimal digits
IntegerBalances == IsDigits(RawBalance("balance_a")) /\ IsDigits(RawBalance("balance_b"))

\* C4: for a record with integer balances calculate_exchange_rate returns
\* (None, None) exactly when a normalized amount is zero, an absent balance
\* counting as "0", and returns two defined rates otherwise; it returns, it
\* does not raise.  main then reports that the rates could not be calculated
\* and ends without a prompt and without a quote.
C4_ZeroAmountIsUndefined ==
  /\ (entry = "calculate_exchange_rate" /\ IntegerBalances) =>
       Calculated /\ ret.kind = "pair"
  /\ Calculated =>
      /\ IF IsZeroText(RawBalance("balance_a")) \/ IsZeroText(RawBalance("balance_b"))
         THEN /\ calc.rate_a_to_b = None
              /\ calc.rate_b_to_a = None
              /\ pc = "done"
              /\ ~Prompted
              /\ quote = None
              /\ \A i \in 1..Len(log) : log[i].line \notin RateLines
              /\ entry = "main" =>
                   ret = None /\ LineAt(Len(log)) = "Could not calculate exchange rates"
         ELSE Defined(calc.rate_a_to_b) /\ Defined(calc.rate_b_to_a)
      /\ entry = "calculate_exchange_rate" =>
           ret = [kind |-> "pair", rate_a_to_b |-> calc.rate_a_to_b,
                  rate_b_to_a |-> calc.rate_b_to_a]

\* main ended on a record without balance_a
C4_Witness ==
  /\ entry = "main"
  /\ Calculated
  /\ pool_data.kind = "object"
  /\ "balance_a" \notin DOMAIN pool_data.fields
  /\ ~IsZeroText(RawBalance("balance_b"))
  /\ calc.rate_a_to_b = None
  /\ LineAt(Len(log)) = "Could not calculate exchange rates"

\* C5: for non-zero balances the normalized amounts are balance_a /
\* 10^precisionA and balance_b / 10^precisionB, and the rates returned are
\* amountB / amountA first and amountA / amountB second, as 28-digit
\* decimals.  balance_a = "123450000" at precision 4 normalizes to 12345;
\* balances 1000 and 1000 at precisions 4 and 2 give the rates 100 and 0.01.
C5_RatesAreQuotients ==
  ( /\ Calculated
    /\ IsDigits(RawBalance("balance_a")) /\ ~IsZeroText(RawBalance("balance_a"))
    /\ IsDigits(RawBalance("balance_b")) /\ ~IsZeroText(RawBalance("balance_b")) )
  => /\ SameValue(calc.balance_a, Amount("balance_a", precision.a))
     /\ SameValue(calc.balance_b, Amount("balance_b", precision.b))
     /\ Defined(calc.rate_a_to_b)
     /\ Defined(calc.rate_b_to_a)
     /\ RoundedTo28(calc.rate_a_to_b, Amount("balance_a", precision.a),
                    Amount("balance_b", precision.b))
     /\ RoundedTo28(calc.rate_b_to_a, Amount("balance_b", precision.b),
                    Amount("balance_a", precision.a))
     /\ entry = "calculate_exchange_rate" =>
          ret.rate_a_to_b = calc.rate_a_to_b /\ ret.rate_b_to_a = calc.rate_b_to_a
     /\ (RawBalance("balance_a") = IntText(123450000)
         /\ precision.a = 4) =>
          SameValue(calc.balance_a, Dec(0, <<1, 2, 3, 4, 5>>, 0))
     /\ (RawBalance("balance_a") = IntText(1000)
         /\ RawBalance("balance_b") = IntText(1000)
         /\ precision = [a |-> 4, b |-> 2]) =>
          /\ SameValue(calc.rate_a_to_b, Dec(0, <<1, 0, 0>>, 0))
          /\ SameValue(calc.rate_b_to_a, Dec(0, <<1>>, -2))

\* the second example: balances 1000 and 1000 at precisions 4 and 2
C5_Witness ==
  /\ Calculated
  /\ RawBalance("balance_a") = IntText(1000)
  /\ RawBalance("balance_b") = IntText(1000)
  /\ precision = [a |-> 4, b |-> 2]
  /\ SameValue(calc.balance_a, Dec(0, <<1>>, -1))
  /\ SameValue(calc.rate_a_to_b, Dec(0, <<1, 0, 0>>, 0))
  /\ SameValue(calc.rate_b_to_a, Dec(0, <<1>>, -2))

\* C6: for non-zero balances the product of the two rates returned is 1 to
\* within the rounding of 28 significant digits: rateAtoB * rateBtoA differs
\* from 1 by at most 2 * 10^-27.
C6_RatesAreReciprocal ==
  ( /\ Calculated
    /\ ~IsZeroText(RawBalance("balance_a"))
    /\ ~IsZeroText(RawBalance("balance_b")) )
  => /\ Defined(calc.rate_a_to_b)
     /\ Defined(calc.rate_b_to_a)
     /\ CmpDistance(ExactProduct(calc.rate_a_to_b, calc.rate_b_to_a), One,
                    Dec(0, <<2>>, -27)) <= 0

\* rates that are both rounded, with a product that is not exactly 1
C6_Witness ==
  /\ Calculated
  /\ Defined(calc.rate_a_to_b)
  /\ Defined(calc.rate_b_to_a)
  /\ Len(calc.rate_a_to_b.int) = 28
  /\ Len(calc.rate_b_to_a.int) = 28
  /\ ~SameValue(ExactProduct(calc.rate_a_to_b, calc.rate_b_to_a), One)

\* the asset typed is one of the two the program knows
Recognized == asset_input \in {XBTSX_WRAM, BTWTY_EOS}

\* the rate the quote starts from: A per B for an amount of XBTSX.WRAM (the
\* B-asset), B per A for an amount of BTWTY.EOS (the A-asset)
BaseRate == IF asset_input = XBTSX_WRAM THEN calc.rate_b_to_a ELSE calc.rate_a_to_b

\* the decimals the output is shown with
OutputPlaces == IF asset_input = XBTSX_WRAM THEN 4 ELSE 2

\* the position of the decimal point in a text, 0 if it has none
PointAt(t) == IF \E i \in 1..Len(t) : t[i] = 46 THEN CHOOSE i \in 1..Len(t) : t[i] = 46 ELSE 0

\* the value a text of digits with a decimal point shows
ShownValue(t) ==
  Dec(0, StripZeros(TextDigits(SubSeq(t, 1, PointAt(t) - 1) \o SubSeq(t, PointAt(t) + 1, Len(t)))),
      PointAt(t) - Len(t))

\* C7: the quote is bridgeRate = baseRate * 0.975 and output = input *
\* bridgeRate as 28-digit decimals, from rateBtoA for an amount of XBTSX.WRAM
\* with the output shown to 4 decimals in BTWTY.EOS, from rateAtoB for an
\* amount of BTWTY.EOS with the output shown to 2 decimals in XBTSX.WRAM,
\* for an amount that is a number; rateBtoA = 0.01 and 100 XBTSX.WRAM give
\* the rate 0.00975 and the output 0.975.  Rate, amount and multiplier
\* determine the quote.
C7_BridgeQuote ==
  quote # None =>
    /\ entry = "main"
    /\ Recognized
    /\ Defined(BaseRate)
    /\ RoundedTo28(quote.bridge_exchange_rate, One,
                   ExactProduct(BaseRate, Dec(0, <<9, 7, 5>>, -3)))
    /\ quote = BridgeQuote(quote.direction, BaseRate, amount_input, OutputPlaces)
    /\ amount_input.special = "" =>
         /\ RoundedTo28(quote.exchanged_amount, One,
                        ExactProduct(amount_input, quote.bridge_exchange_rate))
         /\ PointAt(quote.amount_text) = Len(quote.amount_text) - OutputPlaces
         /\ CmpDistance(Twice(ShownValue(quote.amount_text)), Twice(quote.exchanged_amount),
                        Dec(0, <<1>>, -OutputPlaces)) <= 0
    /\ log[Len(log)] = [line |-> "Exchanged Amount", text |-> quote.amount_text,
                        asset |-> IF asset_input = XBTSX_WRAM THEN "BTWTY.EOS" ELSE "XBTSX.WRAM"]
    /\ log[Len(log) - 1].line = "Bridge Exchange Rate"
    /\ log[Len(log) - 1].direction =
         IF asset_input = XBTSX_WRAM THEN "XBTSX.WRAM -> BTWTY.EOS" ELSE "BTWTY.EOS -> XBTSX.WRAM"
    /\ ( /\ asset_input = XBTSX_WRAM
         /\ SameValue(calc.rate_b_to_a, Dec(0, <<1>>, -2))
         /\ SameValue(amount_input, Dec(0, <<1, 0, 0>>, 0)) )
       => /\ SameValue(quote.bridge_exchange_rate, Dec(0, <<9, 7, 5>>, -5))
          /\ SameValue(quote.exchanged_amount, Dec(0, <<9, 7, 5>>, -3))
          /\ quote.amount_text = Text(<<"0", ".", "9", "7", "5", "0">>)

\* the quote of the example, from "100" typed for XBTSX.WRAM at rateBtoA = 0.01
C7_Witness ==
  /\ quote # None
  /\ asset_input = XBTSX_WRAM
  /\ SameValue(calc.rate_b_to_a, Dec(0, <<1>>, -2))
  /\ amount_input = Dec(0, <<1, 0, 0>>, 0)
  /\ quote.amount_text = Text(<<"0", ".", "9", "7", "5", "0">>)

\* a quote for BTWTY.EOS whose product needed rounding
C7_WitnessRounded ==
  /\ quote # None
  /\ asset_input = BTWTY_EOS
  /\ Len(quote.bridge_exchange_rate.int) = 28
  /\ ~SameValue(quote.bridge_exchange_rate, ExactProduct(BaseRate, Dec(0, <<9, 7, 5>>, -3)))

\* main has been through both prompts
Answered == entry = "main" /\ pc = "done" /\ Printed("BRIDGE EXCHANGE:")

\* C8: whatever is typed at the two prompts, main ends normally; it prints a
\* quote only for a recognized asset and an amount that is a number, and
\* otherwise ends on a message about the input.
C8_InvalidInputReported ==
  Answered =>
    /\ ret = None
    /\ quote # None => Recognized /\ amount_input # None /\ ~IsNaN(amount_input)
    /\ quote = None =>
         LineAt(Len(log)) \notin {"BRIDGE EXCHANGE:", "Bridge Exchange Rate", "Exchanged Amount"}

\* C9: every endpoint attempt that failed has left a line of its own in the
\* log, after the line that announces the attempt.
C9_EveryFailureLogged ==
  \A i \in 1..Len(attempts) :
    (Fetching /\ ~Answers(attempts[i].response)) =>
      \E k \in 1..Len(log) :
        /\ "url" \in DOMAIN log[k]
        /\ log[k].url = attempts[i].request.url
        /\ log[k].line # "Trying API"

\* get_single_rate has returned
SingleRateReturned == entry = "get_single_rate" /\ pc = "done"

\* C10: get_single_rate returns None when the fetch failed or when a
\* normalized amount of the record is zero, and otherwise, for a record with
\* integer balances, the value of the rateAtoB that calculate_exchange_rate
\* returns for the record, never 0.
C10_SingleRateAgrees ==
  (SingleRateReturned /\ (pool_data = None \/ IntegerBalances)) =>
    IF pool_data = None
       \/ IsZeroText(RawBalance("balance_a")) \/ IsZeroText(RawBalance("balance_b"))
    THEN ret = None
    ELSE /\ ret.kind = "float"
         /\ ~NatIsZero(ret.value.m)
         /\ ret.value = DecToFloat(calculate_exchange_rate(pool_data, precision.a,
                                                           precision.b).rate_a_to_b)

=============================================================================
